---- MODULE Spec2Model ----
(***************************************************************************)
(* A model of iepy/models.py: the range bisection interval_offsets, the    *)
(* chunk constructor TextChunk.build and the preprocess bookkeeping of     *)
(* IEDocument (set_preprocess_result / get_preprocess_result).             *)
(*                                                                         *)
(* Python lists are sequences; Python indices are 0-based, so a[i] of the  *)
(* source is At(a, i) here and a[i:j] is Slice(a, i, j).                   *)
(***************************************************************************)
EXTENDS Integers, Sequences, FiniteSets, TLC

VARIABLES
    py,                   \* major version of the interpreter running the module
    tokens,               \* IEDocument.tokens
    postags,              \* IEDocument.postags
    sentences,            \* IEDocument.sentences
    entities,             \* IEDocument.entities, sorted by offset
    preprocess_metadata,  \* IEDocument.preprocess_metadata: step name -> done_at
    now,                  \* the latest value datetime.now() returned
    reads,                \* how many times set_preprocess_result has read datetime.now()
    call,                 \* the last call made: operation and arguments
    pre,                  \* the document fields as they were when that call began
    out,                  \* what that call did: value returned or exception raised
    last_set              \* per step, the result of its latest successful set_preprocess_result

vars == <<py, tokens, postags, sentences, entities, preprocess_metadata,
          now, reads, call, pre, out, last_set>>

----------------------------------------------------------------------------
(* Bounds of the model *)

\* longest list handed to interval_offsets
MaxLen == 3
\* keys of the elements of such a list are 0..MaxKey
MaxKey == 2
\* bisection loops are cut after this many iterations
Fuel == 6
\* most tokens in a document
MaxTokens == 3
\* most entity occurrences in a document
MaxOcc == 4
\* longest token list or tag list handed to set_preprocess_result
MaxResultLen == 2
\* longest segmentation result handed to set_preprocess_result
MaxSegLen == 2
\* datetime.now() is read at most this many times
MaxClock == 3

\* the instants datetime.now() can return are 0..MaxInstant
MaxInstant == 2

----------------------------------------------------------------------------
(* Python values *)

Min(x, y) == IF x <= y THEN x ELSE y
Max(x, y) == IF x >= y THEN x ELSE y

\* a[i] for 0 <= i < len(a)
At(a, i) == a[i + 1]

\* a[i:j] with Python's clamping of out-of-range and negative bounds
NormIndex(n, i) == IF i < 0 THEN Max(n + i, 0) ELSE Min(i, n)
Slice(a, i, j) ==
    LET s == NormIndex(Len(a), i)
        e == NormIndex(Len(a), j)
    IN  IF s >= e THEN << >> ELSE [k \in 1..(e - s) |-> a[s + k]]

\* outcomes of a call
Return(v) == [kind |-> "return", none |-> FALSE, val |-> v, exc |-> "", msg |-> ""]
ReturnNone == [kind |-> "return", none |-> TRUE, val |-> << >>, exc |-> "", msg |-> ""]
Raise(e, m) == [kind |-> "raise", none |-> FALSE, val |-> << >>, exc |-> e, msg |-> m]
\* a loop that did not finish within Fuel iterations
Diverged == [kind |-> "diverged", none |-> FALSE, val |-> << >>, exc |-> "", msg |-> ""]

----------------------------------------------------------------------------
(* interval_offsets *)

\* key(v): the identity when key is None, occ.offset as passed by TextChunk.build
Key(key, v) == IF key = "None" THEN v ELSE v.offset

\* first loop: reduce the range for both endpoints.  st is "done" when the
\* loop ends (by its condition or by break), with mid the last midpoint
\* computed (bound |-> FALSE when the body never ran).
RECURSIVE Narrow(_, _, _, _, _, _, _, _, _)
Narrow(a, key, xl, xr, lo, hi, mid, bound, fuel) ==
    IF ~(lo < hi)
    THEN [st |-> "done", lo |-> lo, hi |-> hi, mid |-> mid, bound |-> bound]
    ELSE IF fuel = 0
    THEN [st |-> "diverged", lo |-> lo, hi |-> hi, mid |-> mid, bound |-> bound]
    ELSE LET m == (lo + hi) \div 2 IN
         IF m >= Len(a)
         THEN [st |-> "IndexError", lo |-> lo, hi |-> hi, mid |-> m, bound |-> TRUE]
         ELSE LET v == Key(key, At(a, m)) IN
              IF xl <= v /\ xr <= v
              THEN Narrow(a, key, xl, xr, lo, m, m, TRUE, fuel - 1)
              ELSE IF v < xl /\ v < xr
              THEN Narrow(a, key, xl, xr, m + 1, hi, m, TRUE, fuel - 1)
              ELSE [st |-> "done", lo |-> lo, hi |-> hi, mid |-> m, bound |-> TRUE]

\* second loop: the left bisection point
RECURSIVE LeftBisect(_, _, _, _, _, _)
LeftBisect(a, key, xl, llo, lhi, fuel) ==
    IF ~(llo < lhi) THEN [st |-> "done", at |-> llo]
    ELSE IF fuel = 0 THEN [st |-> "diverged", at |-> llo]
    ELSE LET mid == (llo + lhi) \div 2 IN
         IF mid >= Len(a) THEN [st |-> "IndexError", at |-> llo]
         ELSE IF Key(key, At(a, mid)) < xl
              THEN LeftBisect(a, key, xl, mid + 1, lhi, fuel - 1)
              ELSE LeftBisect(a, key, xl, llo, mid, fuel - 1)

\* the third loop with its comparison made strict (xr < key instead of xr <= key)
RECURSIVE RightBisectStrict(_, _, _, _, _, _)
RightBisectStrict(a, key, xr, rlo, rhi, fuel) ==
    IF ~(rlo < rhi) THEN [st |-> "done", at |-> rlo]
    ELSE IF fuel = 0 THEN [st |-> "diverged", at |-> rlo]
    ELSE LET mid == (rlo + rhi) \div 2 IN
         IF mid >= Len(a) THEN [st |-> "IndexError", at |-> rlo]
         ELSE IF xr < Key(key, At(a, mid))
              THEN RightBisectStrict(a, key, xr, rlo, mid, fuel - 1)
              ELSE RightBisectStrict(a, key, xr, mid + 1, rhi, fuel - 1)

\* third loop: the right bisection point
RECURSIVE RightBisect(_, _, _, _, _, _)
RightBisect(a, key, xr, rlo, rhi, fuel) ==
    IF ~(rlo < rhi) THEN [st |-> "done", at |-> rlo]
    ELSE IF fuel = 0 THEN [st |-> "diverged", at |-> rlo]
    ELSE LET mid == (rlo + rhi) \div 2 IN
         IF mid >= Len(a) THEN [st |-> "IndexError", at |-> rlo]
         ELSE IF xr <= Key(key, At(a, mid))
              THEN RightBisect(a, key, xr, rlo, mid, fuel - 1)
              ELSE RightBisect(a, key, xr, mid + 1, rhi, fuel - 1)

LoopFailure(st) ==
    IF st = "diverged" THEN Diverged
    ELSE Raise("IndexError", "")

\* the body after the argument checks and the empty-range case
BisectFrom(a, key, xl, xr, lo, hi) ==
    LET n == Narrow(a, key, xl, xr, lo, hi, 0, FALSE, Fuel) IN
    IF n.st # "done" THEN LoopFailure(n.st)
    ELSE IF ~n.bound
    THEN Raise("UnboundLocalError", "")
    ELSE LET left  == LeftBisect(a, key, xl, n.lo, n.mid, Fuel)
             right == RightBisect(a, key, xr, n.mid, n.hi, Fuel)
         IN  IF left.st # "done" THEN LoopFailure(left.st)
             ELSE IF right.st # "done" THEN LoopFailure(right.st)
             ELSE Return(<<left.at, right.at>>)

\* interval_offsets with the empty-range case tested before the argument checks
interval_offsets_EmptyFirst(a, xl, xr, lo, hiNone, hiArg, key) ==
    LET hi == IF hiNone THEN Len(a) ELSE hiArg IN
    IF lo = hi THEN Return(<<lo, hi>>)
    ELSE IF lo < 0 THEN Raise("ValueError", "lo must not be negative")
    ELSE IF xl > xr THEN Raise("ValueError", "This function requires xl <= xr ")
    ELSE BisectFrom(a, key, xl, xr, lo, hi)

\* hiNone: the hi argument is left at its default None
interval_offsets(a, xl, xr, lo, hiNone, hiArg, key) ==
    LET hi == IF hiNone THEN Len(a) ELSE hiArg IN
    IF lo < 0 THEN Raise("ValueError", "lo must not be negative")
    ELSE IF xl > xr THEN Raise("ValueError", "This function requires xl <= xr ")
    ELSE IF lo = hi THEN Return(<<lo, hi>>)
    ELSE BisectFrom(a, key, xl, xr, lo, hi)

----------------------------------------------------------------------------
(* Calls of interval_offsets on lists of integers *)

NoDoc == [tokens |-> << >>, postags |-> << >>, sentences |-> << >>,
          preprocess_metadata |-> << >>]

\* no step has been set
NeverSet == [s \in {"tokenization", "segmentation", "tagging", "nerc"} |->
                [set |-> FALSE, result |-> << >>]]

SeqsUpTo(S, n) == UNION {[1..k -> S] : k \in 0..n}

\* a call that has been made and has not run yet
Pending == [kind |-> "pending", none |-> FALSE, val |-> << >>, exc |-> "", msg |-> ""]

\* the arguments of one call: any list of keys, any interval, any lo and hi
IOCalls ==
    {[op |-> "interval_offsets", a |-> a, xl |-> xl, xr |-> xr, lo |-> lo,
      hiNone |-> h[1], hi |-> h[2]] :
        a \in SeqsUpTo(0..MaxKey, MaxLen),
        xl \in 0..(MaxKey + 1), xr \in 0..(MaxKey + 1),
        lo \in (-1)..MaxLen,
        h \in ({FALSE} \X (0..(MaxLen + 1))) \cup {<<TRUE, 0>>}}

InitIO ==
    /\ py \in {2, 3}
    /\ tokens = << >>
    /\ postags = << >>
    /\ sentences = << >>
    /\ entities = << >>
    /\ preprocess_metadata = << >>
    /\ now = 0
    /\ reads = 0
    /\ call \in IOCalls
    /\ pre = NoDoc
    /\ out = Pending
    /\ last_set = NeverSet

CallIntervalOffsets ==
    /\ call.op = "interval_offsets"
    /\ out.kind = "pending"
    /\ out' = interval_offsets(call.a, call.xl, call.xr, call.lo,
                               call.hiNone, call.hi, "None")
    /\ UNCHANGED <<py, tokens, postags, sentences, entities,
                   preprocess_metadata, now, reads, call, pre, last_set>>

NextIO == CallIntervalOffsets

SpecIO == InitIO /\ [][NextIO]_vars

----------------------------------------------------------------------------
(* TextChunk.build *)

\* the projection with the document offset kept (offset=o.offset)
EntityInChunk_NoRebase(o, token_offset) ==
    [key |-> o.entity.key,
     canonical_form |-> o.entity.canonical_form,
     kind |-> o.entity.kind,
     offset |-> o.offset,
     alias |-> o.alias]

\* EntityInChunk(key=o.entity.key, ..., offset=o.offset - token_offset, alias=o.alias)
EntityInChunk(o, token_offset) ==
    [key |-> o.entity.key,
     canonical_form |-> o.entity.canonical_form,
     kind |-> o.entity.kind,
     offset |-> o.offset - token_offset,
     alias |-> o.alias]

\* the chunk built from document fields toks, tags and ents
build(toks, tags, ents, token_offset, token_offset_end, text) ==
    LET lr == interval_offsets(ents, token_offset, token_offset_end,
                               0, TRUE, 0, "offset")
    IN  IF lr.kind # "return" THEN lr
        ELSE LET l == lr.val[1]
                 r == lr.val[2]
                 found == Slice(ents, l, r)
             IN  Return([text |-> text,
                         offset |-> token_offset,
                         tokens |-> Slice(toks, token_offset, token_offset_end),
                         postags |-> Slice(tags, token_offset, token_offset_end),
                         entities |-> [i \in 1..Len(found) |->
                                          EntityInChunk(found[i], token_offset)]])

----------------------------------------------------------------------------
(* Calls of TextChunk.build on documents with sorted occurrences *)

\* the entities of the store
Entities ==
    {[key |-> "ada", canonical_form |-> "Ada Lovelace", kind |-> "person"],
     [key |-> "rome", canonical_form |-> "Rome", kind |-> "location"]}

\* the occurrences a document of n tokens can hold: offset is an offset in
\* tokens with respect to the document; an occurrence carries an alias when
\* its text differs from the canonical form
Occurrences(n) ==
    {[entity |-> e, offset |-> o,
      alias |-> IF e.kind = "person" THEN "Ada" ELSE ""] :
        e \in Entities, o \in 0..(n - 1)}

\* occurrence lists as documents hold them: sorted by offset
SortedByOffset(ents) ==
    \A i \in 1..Len(ents) : \A j \in i..Len(ents) : ents[i].offset <= ents[j].offset

\* a document of n tokens, and its tags once tagged
DocTokens(n) == [i \in 1..n |-> IF i % 2 = 1 THEN "a" ELSE "b"]
DocTags(n) == [i \in 1..n |-> IF i % 2 = 1 THEN "N" ELSE "V"]

InitChunk ==
    /\ py \in {2, 3}
    /\ \E n \in 0..MaxTokens :
          /\ tokens = DocTokens(n)
          /\ postags \in {<< >>, DocTags(n)}
          /\ entities \in {e \in SeqsUpTo(Occurrences(n), MaxOcc) : SortedByOffset(e)}
    /\ sentences = << >>
    /\ preprocess_metadata = << >>
    /\ now = 0
    /\ reads = 0
    /\ \E t \in (-1)..(MaxTokens + 1), e \in (-1)..(MaxTokens + 1) :
          call = [op |-> "build", token_offset |-> t, token_offset_end |-> e,
                  text |-> "..."]
    /\ pre = NoDoc
    /\ out = Pending
    /\ last_set = NeverSet

CallBuild ==
    /\ call.op = "build"
    /\ out.kind = "pending"
    /\ out' = build(tokens, postags, entities,
                    call.token_offset, call.token_offset_end, call.text)
    /\ UNCHANGED <<py, tokens, postags, sentences, entities,
                   preprocess_metadata, now, reads, call, pre, last_set>>

NextChunk == CallBuild

SpecChunk == InitChunk /\ [][NextChunk]_vars

----------------------------------------------------------------------------
(* IEDocument: the preprocess steps *)

\* the names of the members of the enumeration PreProcessSteps
PreProcessSteps == {"tokenization", "segmentation", "tagging", "nerc"}

\* isinstance(step, PreProcessSteps)
IsStep(step) == step \in PreProcessSteps

\* the class attribute preprocess_fields_mapping
preprocess_fields_mapping ==
    [s \in {"tokenization", "segmentation", "tagging"} |->
        CASE s = "tokenization" -> "tokens"
          [] s = "segmentation" -> "sentences"
          [] s = "tagging" -> "postags"]

\* step.name in self.preprocess_metadata.keys()
was_preprocess_done(metadata, step) == step \in DOMAIN metadata

\* the elements of a segmentation result: Python ints, and floats n.0
IntVal(n) == [type |-> "int", v |-> n]
FloatVal(n) == [type |-> "float", v |-> n]

\* the truth value of filter(lambda x: not isinstance(x, int), result):
\* a list under Python 2, empty when every element is an int; an iterator
\* object under Python 3, which is always true
FilterNonIntsTruthy(version, result) ==
    IF version = 2
    THEN \E i \in 1..Len(result) : result[i].type # "int"
    ELSE TRUE

\* sorted(result) != result
NotSorted(result) ==
    \E i \in 1..(Len(result) - 1) : result[i].v > result[i + 1].v

\* len(set(result)) < len(result)
HasDuplicates(result) ==
    \E i \in 1..Len(result) : \E j \in (i + 1)..Len(result) : result[i].v = result[j].v

\* the checks of a segmentation result; "ok" when it is accepted
CheckSegmentation(version, toks, result) ==
    IF FilterNonIntsTruthy(version, result)
    THEN Raise("ValueError", "Segmentation result shall only contain ints")
    ELSE IF NotSorted(result)
    THEN Raise("ValueError", "Segmentation result shall be ordered.")
    ELSE IF HasDuplicates(result)
    THEN Raise("ValueError", "Segmentation result shall not contain duplicates.")
    ELSE IF Len(result) = 0
    THEN Raise("IndexError", "")
    ELSE IF result[1].v # 0 \/ result[Len(result)].v # Len(toks)
    THEN Raise("ValueError", "Segmentation result must be offsets of tokens.")
    ELSE Return("ok")

\* the check of a tagging result rejecting only results that are too short
CheckTagging_ShortOnly(toks, result) ==
    IF Len(result) < Len(toks)
    THEN Raise("ValueError", "Tagging result must have same cardinality than tokens")
    ELSE Return("ok")

\* the check of a tagging result
CheckTagging(toks, result) ==
    IF Len(result) # Len(toks)
    THEN Raise("ValueError", "Tagging result must have same cardinality than tokens")
    ELSE Return("ok")

\* what set_preprocess_result does before it changes the document: the
\* exception it raises, or "ok"
CheckSet(version, toks, step, result) ==
    IF ~IsStep(step) THEN Raise("InvalidPreprocessSteps", "")
    ELSE LET checked ==
                 IF step = "segmentation" THEN CheckSegmentation(version, toks, result)
                 ELSE IF step = "tagging" THEN CheckTagging(toks, result)
                 ELSE Return("ok")
         IN  IF checked.kind # "return" THEN checked
             ELSE IF step \notin DOMAIN preprocess_fields_mapping
             THEN Raise("KeyError", "")
             ELSE Return("ok")

\* datetime.now(): naive local time.  Nothing relates a reading to the
\* readings before it (the same microsecond, a later one, or any earlier one
\* when local time leaves daylight time or the clock is set), so a reading
\* is any instant whatever the earlier readings were
DatetimeNow == 0..MaxInstant

\* the metadata replaced by a fresh dictionary holding this step alone
MarkDone_Fresh(metadata, step, t) ==
    [n \in {step} |-> [done_at |-> t]]

\* self.preprocess_metadata[step.name] = {'done_at': datetime.now()}
MarkDone(metadata, step, t) ==
    [n \in (DOMAIN metadata) \cup {step} |->
        IF n = step THEN [done_at |-> t] ELSE metadata[n]]

\* the value of a field after setattr(self, field_name, result)
FieldAfterSet(field, field_name, old, result) ==
    IF field = field_name THEN result ELSE old

Snapshot ==
    [tokens |-> tokens, postags |-> postags, sentences |-> sentences,
     preprocess_metadata |-> preprocess_metadata]

set_preprocess_result(step, result) ==
    /\ call.op = "none"
    /\ reads < MaxClock
    /\ call' = [op |-> "set_preprocess_result", step |-> step, result |-> result]
    /\ pre' = Snapshot
    /\ LET checked == CheckSet(py, tokens, step, result) IN
       IF checked.kind # "return"
       THEN /\ out' = checked
            /\ UNCHANGED <<tokens, postags, sentences, preprocess_metadata,
                           now, reads, last_set>>
       ELSE LET field_name == preprocess_fields_mapping[step] IN
            /\ tokens' = FieldAfterSet("tokens", field_name, tokens, result)
            /\ sentences' = FieldAfterSet("sentences", field_name, sentences, result)
            /\ postags' = FieldAfterSet("postags", field_name, postags, result)
            /\ now' \in DatetimeNow
            /\ reads' = reads + 1
            /\ preprocess_metadata' = MarkDone(preprocess_metadata, step, now')
            /\ out' = Return("self")
            /\ last_set' = [last_set EXCEPT ![step] = [set |-> TRUE, result |-> result]]
    /\ UNCHANGED <<py, entities>>

\* getattr(self, field_name)
FieldValue(field_name) ==
    CASE field_name = "tokens" -> tokens
      [] field_name = "sentences" -> sentences
      [] field_name = "postags" -> postags

\* get_preprocess_result without the test of was_preprocess_done
GetResult_NoDoneTest(metadata, step) ==
    IF step \notin DOMAIN preprocess_fields_mapping THEN Raise("KeyError", "")
    ELSE Return(FieldValue(preprocess_fields_mapping[step]))

GetResult(metadata, step) ==
    IF ~was_preprocess_done(metadata, step) THEN ReturnNone
    ELSE IF step \notin DOMAIN preprocess_fields_mapping THEN Raise("KeyError", "")
    ELSE Return(FieldValue(preprocess_fields_mapping[step]))

get_preprocess_result(step) ==
    /\ call.op = "none"
    /\ call' = [op |-> "get_preprocess_result", step |-> step, result |-> << >>]
    /\ pre' = Snapshot
    /\ out' = GetResult(preprocess_metadata, step)
    /\ UNCHANGED <<py, tokens, postags, sentences, entities,
                   preprocess_metadata, now, reads, last_set>>

----------------------------------------------------------------------------
(* Calls on a fresh document *)

Words == {"a"}
Tags == {"N"}

\* the results handed to set_preprocess_result for a step
ResultsFor(step) ==
    CASE step = "tokenization" -> SeqsUpTo(Words, MaxResultLen)
      [] step = "tagging" -> SeqsUpTo(Tags, MaxResultLen)
      [] step = "segmentation" ->
            SeqsUpTo({IntVal(n) : n \in 0..MaxResultLen} \cup {FloatVal(0)}, MaxSegLen)
      [] OTHER -> {<< >>}

\* what callers pass as step: the members of the enumeration, and a plain
\* string that is not one
StepArgs == PreProcessSteps \cup {"not a step"}

\* a fresh document, under either interpreter
Init ==
    /\ (py = 3 \/ py = 2)
    /\ tokens = << >>
    /\ postags = << >>
    /\ sentences = << >>
    /\ entities = << >>
    /\ preprocess_metadata = << >>
    /\ now = 0
    /\ reads = 0
    /\ call = [op |-> "none", step |-> "", result |-> << >>]
    /\ pre = NoDoc
    /\ out = ReturnNone
    /\ last_set = NeverSet

\* no call is under way
Idle == [op |-> "none", step |-> "", result |-> << >>]

\* the caller takes what the call returned or raised and goes on
Resume ==
    /\ call.op # "none"
    /\ call' = Idle
    /\ pre' = NoDoc
    /\ out' = ReturnNone
    /\ UNCHANGED <<py, tokens, postags, sentences, entities,
                   preprocess_metadata, now, reads, last_set>>

Next ==
    \/ \E step \in StepArgs : \E result \in ResultsFor(step) :
          set_preprocess_result(step, result)
    \/ \E step \in PreProcessSteps : get_preprocess_result(step)
    \/ Resume

Spec == Init /\ [][Next]_vars

----------------------------------------------------------------------------
(* Properties of interval_offsets *)

\* the call of interval_offsets has run
IODone == call.op = "interval_offsets" /\ out.kind # "pending"

\* the value of hi the body works with
IOHi == IF call.hiNone THEN Len(call.a) ELSE call.hi

\* a[lo:hi] is sorted ascending
IOSorted ==
    \A i \in call.lo..(IOHi - 1) : \A j \in i..(IOHi - 1) :
        At(call.a, i) <= At(call.a, j)

\* the precondition of the contract
IOPre ==
    /\ 0 <= call.lo /\ call.lo <= IOHi /\ IOHi <= Len(call.a)
    /\ call.xl <= call.xr
    /\ IOSorted

\* lower_bound(x) over a[lo:hi]: lo plus the number of elements below x
LowerBound(x) ==
    call.lo + Cardinality({i \in call.lo..(IOHi - 1) : At(call.a, i) < x})

\* C1: on a slice a[lo:hi] sorted ascending, with 0 <= lo <= hi <= len(a) and
\* xl <= xr, interval_offsets terminates and returns (l, r), lo <= l <= r <= hi,
\* where a[lo:l] is below xl, a[l:r] is in [xl, xr) and a[r:hi] is at or
\* above xr: l and r are the lower-bound positions of xl and xr.
C1_Partition ==
    (IODone /\ IOPre) =>
        /\ out.kind = "return"
        /\ LET l == out.val[1]
               r == out.val[2]
           IN  /\ call.lo <= l /\ l <= r /\ r <= IOHi
               /\ \A i \in call.lo..(l - 1) : At(call.a, i) < call.xl
               /\ \A i \in l..(r - 1) :
                      call.xl <= At(call.a, i) /\ At(call.a, i) < call.xr
               /\ \A i \in r..(IOHi - 1) : At(call.a, i) >= call.xr
               /\ l = LowerBound(call.xl)
               /\ r = LowerBound(call.xr)
               /\ (call.xl = call.xr => l = r)

\* a call whose interval cuts the slice in three non-empty parts
C1_Witness ==
    /\ IODone /\ IOPre
    /\ out.kind = "return"
    /\ call.lo < out.val[1] /\ out.val[1] < out.val[2] /\ out.val[2] < IOHi

\* C8: a negative lo is rejected with the ValueError about lo, xl > xr with
\* the ValueError about the interval, both before the empty range is looked
\* at; with lo >= 0, xl <= xr and lo = hi the result is (lo, hi) whatever the
\* list holds.
C8_ChecksBeforeEmpty ==
    IODone =>
        /\ call.lo < 0 =>
              out = Raise("ValueError", "lo must not be negative")
        /\ (call.lo >= 0 /\ call.xl > call.xr) =>
              out = Raise("ValueError", "This function requires xl <= xr ")
        /\ (call.lo >= 0 /\ call.xl <= call.xr /\ call.lo = IOHi) =>
              out = Return(<<call.lo, IOHi>>)
        /\ (call.a = << >> /\ call.hiNone /\ call.lo = 0 /\ call.xl <= call.xr) =>
              out = Return(<<0, 0>>)

\* an empty range queried with xl > xr: the call fails
C8_Witness ==
    /\ IODone
    /\ call.lo >= 0 /\ call.lo = IOHi /\ call.xl > call.xr
    /\ out.kind = "raise"

----------------------------------------------------------------------------
(* Properties of TextChunk.build *)

\* the call of build has run
BuildDone == call.op = "build" /\ out.kind # "pending"

\* the precondition of build: 0 <= token_offset <= token_offset_end <= len(tokens)
BuildPre ==
    /\ 0 <= call.token_offset
    /\ call.token_offset <= call.token_offset_end
    /\ call.token_offset_end <= Len(tokens)

InRange(o) ==
    call.token_offset <= o.offset /\ o.offset < call.token_offset_end

\* the occurrences of the document that lie in the range, in document order
OccurrencesInRange == SelectSeq(entities, InRange)

\* C2: for a document with occurrences sorted by offset and a range inside
\* the tokens, the chunk's entities are, one for one and in the same order,
\* the occurrences with offset in [token_offset, token_offset_end), each with
\* offset - token_offset, which is in [0, token_offset_end - token_offset);
\* the full range returns every occurrence with its own offset.
C2_ChunkEntities ==
    (BuildDone /\ BuildPre /\ SortedByOffset(entities)) =>
        /\ out.kind = "return"
        /\ LET got == out.val.entities
               want == OccurrencesInRange
           IN  /\ Len(got) = Len(want)
               /\ \A i \in 1..Len(want) :
                      /\ got[i].key = want[i].entity.key
                      /\ got[i].canonical_form = want[i].entity.canonical_form
                      /\ got[i].kind = want[i].entity.kind
                      /\ got[i].alias = want[i].alias
                      /\ got[i].offset = want[i].offset - call.token_offset
                      /\ 0 <= got[i].offset
                      /\ got[i].offset < call.token_offset_end - call.token_offset
               /\ (call.token_offset = 0 /\ call.token_offset_end = Len(tokens)) =>
                      /\ Len(got) = Len(entities)
                      /\ \A i \in 1..Len(entities) :
                             got[i].offset = entities[i].offset

\* four occurrences, the two in the middle at the same offset and of different
\* entities: the chunk holds exactly those two, re-based
C2_Witness ==
    /\ BuildDone /\ BuildPre
    /\ Len(entities) = 4
    /\ call.token_offset > 0
    /\ out.kind = "return"
    /\ Len(out.val.entities) = 2
    /\ out.val.entities[1].key # out.val.entities[2].key
    /\ entities[2].offset = entities[3].offset
    /\ entities[1].offset < call.token_offset
    /\ entities[4].offset >= call.token_offset_end

\* C3: build fails with the range error and returns no chunk whenever
\* token_offset < 0, token_offset_end > len(tokens) or
\* token_offset > token_offset_end.
C3_InvalidRangeRejected ==
    (BuildDone /\ ~BuildPre) =>
        /\ out.kind = "raise"
        /\ out.exc = "ValueError"

----------------------------------------------------------------------------
(* Properties of the preprocess steps *)

\* the call that has just run is set_preprocess_result for this step
SetRan(step) == call.op = "set_preprocess_result" /\ call.step = step

\* a segmentation result as the data model wants it, for n tokens: ints
\* only, strictly increasing, first 0, last n
ValidSegmentation(result, n) ==
    /\ \A i \in 1..Len(result) : result[i].type = "int"
    /\ \A i \in 1..(Len(result) - 1) : result[i].v < result[i + 1].v
    /\ Len(result) > 0
    /\ result[1].v = 0
    /\ result[Len(result)].v = n

\* C4: a segmentation result is accepted exactly when it holds only ints, is
\* sorted, has no duplicates, starts at 0 and ends at the number of tokens;
\* any other result, the empty list included, fails with ValueError and
\* nothing else; an accepted result is stored in sentences.
C4_SegmentationValidation ==
    SetRan("segmentation") =>
        IF ValidSegmentation(call.result, Len(pre.tokens))
        THEN out.kind = "return" /\ sentences = call.result
        ELSE out.kind = "raise" /\ out.exc = "ValueError"

\* C5: a tagging result whose length differs from the number of tokens fails
\* with the cardinality ValueError; one of equal length is accepted whatever
\* other steps are done, and get_preprocess_result(tagging) then returns it.
C5_TaggingCardinality ==
    SetRan("tagging") =>
        IF Len(call.result) # Len(pre.tokens)
        THEN out = Raise("ValueError",
                         "Tagging result must have same cardinality than tokens")
        ELSE /\ out = Return("self")
             /\ postags = call.result
             /\ GetResult(preprocess_metadata, "tagging") = Return(call.result)

\* tags accepted for a document that has tokens and was never segmented,
\* at a reading earlier than the one that marked the tokenization
C5_Witness ==
    /\ SetRan("tagging")
    /\ out.kind = "return"
    /\ Len(call.result) > 0
    /\ "segmentation" \notin DOMAIN preprocess_metadata
    /\ "tokenization" \in DOMAIN preprocess_metadata
    /\ preprocess_metadata["tagging"].done_at < preprocess_metadata["tokenization"].done_at

\* C6: in every reachable state and for every step of the enumeration,
\* get_preprocess_result does not raise; it returns None exactly when the
\* step's name is not in preprocess_metadata, and otherwise the field mapped
\* from the step, which is the result of the step's latest successful set.
C6_GetNeverRaises ==
    /\ \A step \in PreProcessSteps :
          LET got == GetResult(preprocess_metadata, step) IN
          /\ got.kind = "return"
          /\ got.none <=> (step \notin DOMAIN preprocess_metadata)
          /\ ~got.none =>
                /\ got.val = FieldValue(preprocess_fields_mapping[step])
                /\ last_set[step].set
                /\ got.val = last_set[step].result
    /\ call.op = "get_preprocess_result" =>
          out = GetResult(preprocess_metadata, call.step)

\* get_preprocess_result(tokenization) after tokenization was set twice
C6_Witness ==
    /\ call.op = "get_preprocess_result"
    /\ call.step = "tokenization"
    /\ reads >= 2
    /\ DOMAIN preprocess_metadata = {"tokenization"}
    /\ preprocess_metadata["tokenization"].done_at < MaxInstant
    /\ ~out.none
    /\ Len(out.val) > 0

\* C7: set_preprocess_result for nerc succeeds: it records nerc in
\* preprocess_metadata, returns the document and leaves tokens, postags and
\* sentences as they were.
C7_NercRecorded ==
    SetRan("nerc") =>
        /\ out = Return("self")
        /\ "nerc" \in DOMAIN preprocess_metadata
        /\ tokens = pre.tokens
        /\ postags = pre.postags
        /\ sentences = pre.sentences

\* C9: in every reachable state, tagging done implies as many tags as
\* tokens, and segmentation done implies sentences strictly increasing from
\* 0 to the number of tokens.
C9_DataModelInvariants ==
    /\ "tagging" \in DOMAIN preprocess_metadata => Len(postags) = Len(tokens)
    /\ "segmentation" \in DOMAIN preprocess_metadata =>
          ValidSegmentation(sentences, Len(tokens))

\* the document fields other than the one named are as they were
OtherFieldsKept(field_name) ==
    /\ field_name # "tokens" => tokens = pre.tokens
    /\ field_name # "postags" => postags = pre.postags
    /\ field_name # "sentences" => sentences = pre.sentences

\* C10: a successful set_preprocess_result for a step replaces the field
\* mapped from the step and the step's completion marker and leaves the
\* other fields and markers as they were; a failed one leaves every field and
\* the whole of preprocess_metadata as they were.
C10_Frame ==
    call.op = "set_preprocess_result" =>
        IF out.kind = "return"
        THEN /\ FieldValue(preprocess_fields_mapping[call.step]) = call.result
             /\ OtherFieldsKept(preprocess_fields_mapping[call.step])
             /\ DOMAIN preprocess_metadata =
                    (DOMAIN pre.preprocess_metadata) \cup {call.step}
             /\ preprocess_metadata[call.step] = [done_at |-> now]
             /\ \A n \in (DOMAIN pre.preprocess_metadata) \ {call.step} :
                    preprocess_metadata[n] = pre.preprocess_metadata[n]
        ELSE /\ out.kind = "raise"
             /\ OtherFieldsKept("")
             /\ preprocess_metadata = pre.preprocess_metadata

\* a step that was done is set again while another step is done too; the
\* reading that replaces its marker is earlier than the other step's marker,
\* which is earlier than the marker replaced
C10_Witness ==
    /\ call.op = "set_preprocess_result"
    /\ out.kind = "return"
    /\ call.step \in DOMAIN pre.preprocess_metadata
    /\ FieldValue(preprocess_fields_mapping[call.step]) # pre[preprocess_fields_mapping[call.step]]
    /\ \E n \in (DOMAIN pre.preprocess_metadata) \ {call.step} :
          /\ preprocess_metadata[call.step].done_at < preprocess_metadata[n].done_at
          /\ preprocess_metadata[n].done_at < pre.preprocess_metadata[call.step].done_at

====
